---- MODULE Spec2Model ----
(***************************************************************************)
(* The PTensor -> PTensor+Dist transform (PTensorDist.cpp) as a rewrite     *)
(* system over the body of one function.                                   *)
(*                                                                         *)
(* The state is the function body (a sequence of operations in program     *)
(* order), the values of the function's scalar arguments and the team      *)
(* (number of workers and the runtime's partitioning), and the position of *)
(* the greedy pattern driver.  One action per rewrite pattern; a pattern   *)
(* applied to an op of its root kind either fails (IR untouched) or        *)
(* replaces the op.  The meaning of the rewritten IR on worker r is given  *)
(* by Values.                                                              *)
(***************************************************************************)
EXTENDS Integers, Sequences, FiniteSets, TLC

VARIABLES
    ir,        \* the function body: a sequence of operations, in program order
    input,     \* the function body the pass was started on
    nextId,    \* the next unused SSA value id
    res,       \* result of the last pattern application: "none", "success", "failure"
    rewrites,  \* number of successful pattern applications so far
    pc,        \* "run" while the driver iterates, "done" once it has converged
    env        \* run-time values: start, stop, step, nprocs and the partitioning

vars == <<ir, input, nextId, res, rewrites, pc, env>>

(***************************************************************************)
(* Bounds of the model.                                                    *)
(***************************************************************************)
\* number of ptensor ops in a generated input function (before its return)
MaxOps == 2
\* start, stop and step of a range are drawn from -MaxAbs..MaxAbs
MaxAbs == 2
\* team sizes 1..MaxProcs
MaxProcs == 2
\* i64/index values are kept in IntBits-bit two's complement
IntBits == 7
\* value ids the IR may use; pattern application stops when they run out
MaxIds == 100
\* local offsets and local counts 0..MaxLocal handed to the local-bounds arithmetic
MaxLocal == 3

(***************************************************************************)
(* Values of the function: its arguments, then one id per op result.       *)
(***************************************************************************)
NoVal == 0
ArgStart == 1
ArgStop == 2
ArgStep == 3
ArgDevice == 4
ArgTeam == 5
ArgPT == 6
FirstOpId == 7

(***************************************************************************)
(* Types.  shape is the shape of the (wrapped) ranked tensor, -1 a dynamic *)
(* dimension; rank is the tensor rank, or the rank parameter of DistInfo;   *)
(* elt is the element type of a tensor type.                               *)
(***************************************************************************)
Ty(k, shape, rank) == [k |-> k, shape |-> shape, rank |-> rank, elt |-> "none"]
TensorTy(k, shape, elt) == [k |-> k, shape |-> shape, rank |-> Len(shape), elt |-> elt]
TyI64 == Ty("i64", <<>>, 0)
TyI1 == Ty("i1", <<>>, 0)
TyIndex == Ty("index", <<>>, 0)
TyShape == Ty("shape", <<>>, 0)
TyNone == Ty("none", <<>>, 0)
TyTeam == Ty("i64", <<>>, 0)
\* tensors of i64 (rewriter.getI64Type()), the element type of every range
TyRT(shape) == TensorTy("rtensor", shape, "i64")
TyPT(shape) == TensorTy("ptensor", shape, "i64")
TyDT(shape) == TensorTy("disttensor", shape, "i64")
\* PTensorType::getRtensor(), and the ptensor / distributed tensor over a ranked tensor
getRtensor(ty) == TensorTy("rtensor", ty.shape, ty.elt)
getPTensorType(ty) == TensorTy("ptensor", ty.shape, ty.elt)
getDistTensorType(ty) == TensorTy("disttensor", ty.shape, ty.elt)
TyInfo(rank) == Ty("distinfo", <<>>, rank)
TyIdxTensor == TensorTy("rtensor", <<-1>>, "index")

\* a cast that also takes a plain ptensor for a distributed one
isDistOrPTensorType(ty) == ty.k \in {"disttensor", "ptensor"}

\* mlir::Type::dyn_cast<DistTensorType>() succeeds
isDistTensorType(ty) == ty.k = "disttensor"
\* mlir::Type::dyn_cast<PTensorType>() succeeds
isPTensorType(ty) == ty.k = "ptensor"

(***************************************************************************)
(* Operations.  args are the operand value ids (NoVal for an absent        *)
(* optional operand), attr a symbolic attribute, val an integer attribute, *)
(* loc the source location: an op of the input carries its own position,   *)
(* an op a pattern creates the location of the op it rewrites.             *)
(***************************************************************************)
Op(loc, id, kind, args, attr, val, ty) ==
    [loc |-> loc, id |-> id, kind |-> kind, args |-> args, attr |-> attr, val |-> val,
     ty |-> ty]

Range(s) == {s[i] : i \in DOMAIN s}
OpIds(g) == {g[i].id : i \in DOMAIN g}
OpOf(g, v) == g[CHOOSE i \in DOMAIN g : g[i].id = v]
IsArg(v) == v \in ArgStart..ArgPT
ArgType(v) == IF v = ArgPT THEN TyPT(<<-1>>) ELSE TyI64
TypeOf(g, v) == IF IsArg(v) THEN ArgType(v) ELSE OpOf(g, v).ty


(***************************************************************************)
(* Helper functions of the pass: each returns the ops it creates, in       *)
(* creation order, numbered from id; the last one defines the result.      *)
(***************************************************************************)
\* ::imex::createIndex / ::imex::createInt : an arith.constant
createIndex(loc, id, v) == <<Op(loc, id, "arith.constant", <<>>, "index", v, TyIndex)>>
createInt(loc, id, v, ty) == <<Op(loc, id, "arith.constant", <<>>, ty.k, v, ty)>>

\* number of elements of arange(start, stop, step):
\*   (stop + step + (step < 0 ? 1 : -1) - start) / step, the division unsigned
createCountARange(loc, id, start, stop, step) ==
    createInt(loc, id, 0, TyI64) \o createInt(loc, id + 1, 1, TyI64) \o
    createInt(loc, id + 2, -1, TyI64) \o
    << Op(loc, id + 3, "arith.cmpi", <<step, id>>, "slt", 0, TyI1),
       Op(loc, id + 4, "arith.select", <<id + 3, id + 1, id + 2>>, "", 0, TyI64),
       Op(loc, id + 5, "arith.addi", <<stop, step>>, "", 0, TyI64),
       Op(loc, id + 6, "arith.addi", <<id + 5, id + 4>>, "", 0, TyI64),
       Op(loc, id + 7, "arith.subi", <<id + 6, start>>, "", 0, TyI64),
       Op(loc, id + 8, "arith.divui", <<id + 7, step>>, "", 0, TyI64),
       Op(loc, id + 9, "arith.index_cast", <<id + 8>>, "", 0, TyIndex) >>

createDistInfo(loc, id, rank, gshape, team) ==
    << Op(loc, id, "dist.dist_info", <<gshape, team>>, "", rank, TyInfo(rank)) >>

createGetLocalShape(loc, id, info) ==
    << Op(loc, id, "dist.extract_from_info", <<info>>, "LSHAPE", 0, TyIdxTensor) >>

\* the local shape read once more where the local offsets are meant
createGetLocalShapeAgain(loc, id, info) ==
    << Op(loc, id, "dist.extract_from_info", <<info>>, "LSHAPE", 0, TyIdxTensor) >>

createGetLocalOffsets(loc, id, info) ==
    << Op(loc, id, "dist.extract_from_info", <<info>>, "LOFFSETS", 0, TyIdxTensor) >>

\* the local partial result handed on without the cross-worker combine
createNoAllReduce(loc, id, op, pTnsr, pTy) ==
    << Op(loc, id, "ptensor.extract_rtensor", <<pTnsr>>, "", 0, getRtensor(pTy)),
       Op(loc, id + 1, "tensor.cast", <<id>>, op, 0, getRtensor(pTy)) >>

\* the cross-worker combine always summing, whatever the reduction's opcode
createAllReduceSum(loc, id, op, pTnsr, pTy) ==
    << Op(loc, id, "ptensor.extract_rtensor", <<pTnsr>>, "", 0, getRtensor(pTy)),
       Op(loc, id + 1, "dist.allreduce", <<id>>, "sum", 0, getRtensor(pTy)) >>

\* pTy is the type of pTnsr (asserted to be a PTensorType)
createAllReduce(loc, id, op, pTnsr, pTy) ==
    << Op(loc, id, "ptensor.extract_rtensor", <<pTnsr>>, "", 0, getRtensor(pTy)),
       Op(loc, id + 1, "dist.allreduce", <<id>>, op, 0, getRtensor(pTy)) >>

\* the local tensor handed on with the distributed type of pt
createGetLocalAsDist(loc, id, pt, dtTy) ==
    << Op(loc, id, "dist.get_ptensor", <<pt>>, "", 0, getPTensorType(dtTy)),
       Op(loc, id + 1, "ptensor.extract_rtensor", <<id>>, "", 0, getRtensor(dtTy)),
       Op(loc, id + 2, "ptensor.init_ptensor", <<id + 1, NoVal, NoVal>>, "", 0, dtTy) >>

\* dtTy is the type of pt (asserted to be a DistTensorType)
createGetLocal(loc, id, pt, dtTy) ==
    << Op(loc, id, "dist.get_ptensor", <<pt>>, "", 0, getPTensorType(dtTy)),
       Op(loc, id + 1, "ptensor.extract_rtensor", <<id>>, "", 0, getRtensor(dtTy)),
       Op(loc, id + 2, "ptensor.init_ptensor", <<id + 1, NoVal, NoVal>>, "", 0,
          getPTensorType(dtTy)) >>

\* ptTy is the type of pt
createMkTnsr(loc, id, pt, info, ptTy) ==
    << Op(loc, id, "dist.init_dist_tensor", <<pt, info>>, "", 0, getDistTensorType(ptTy)) >>

\* a dummy value handed on as the team instead of the team read from the DistInfo
createDummyTeam(loc, id, pt, dtTy) ==
    << Op(loc, id, "dist.get_info", <<pt>>, "", 0, TyInfo(dtTy.rank)) >> \o
    createInt(loc, id + 1, 0, TyTeam)

\* dtTy is the type of pt (asserted to be a DistTensorType)
createTeamOf(loc, id, pt, dtTy) ==
    << Op(loc, id, "dist.get_info", <<pt>>, "", 0, TyInfo(dtTy.rank)),
       Op(loc, id + 1, "dist.extract_from_info", <<id>>, "TEAM", 0, TyTeam) >>

(***************************************************************************)
(* PatternRewriter::replaceOp: the new ops are inserted at the position of *)
(* op g[i], every use of its result is redirected to v, and it is erased.  *)
(***************************************************************************)
replaceAllUsesWith(o, old, v) ==
    [o EXCEPT !.args = [k \in DOMAIN o.args |-> IF o.args[k] = old THEN v ELSE o.args[k]]]

\* the new ops put at the end of the body instead of at the position of the op
replaceOpAtEnd(g, i, new, v) ==
    SubSeq(g, 1, i - 1) \o
    [k \in 1..(Len(g) - i) |-> replaceAllUsesWith(g[i + k], g[i].id, v)] \o new

\* the new ops put at the front of the body instead of at the position of the op
replaceOpAtFront(g, i, new, v) ==
    new \o SubSeq(g, 1, i - 1) \o
    [k \in 1..(Len(g) - i) |-> replaceAllUsesWith(g[i + k], g[i].id, v)]

replaceOp(g, i, new, v) ==
    SubSeq(g, 1, i - 1) \o new \o
    [k \in 1..(Len(g) - i) |-> replaceAllUsesWith(g[i + k], g[i].id, v)]

\* what matchAndRewrite hands back: its LogicalResult, the IR it leaves, the next free id
\* a pattern that has already created an op when it reports failure
FailureAfterCreate(g, i, id) ==
    [result |-> "failure",
     ir |-> SubSeq(g, 1, i - 1) \o
            createIndex(g[i].loc, id, 0) \o
            SubSeq(g, i, Len(g)),
     next |-> id + 1]

Failure(g, i, id) == [result |-> "failure", ir |-> g, next |-> id]
Success(g, i, new) ==
    [result |-> "success", ir |-> replaceOp(g, i, new, new[Len(new)].id),
     next |-> new[Len(new)].id + 1]

(***************************************************************************)
(* The four rewrite patterns.  g is the function body, i the position of   *)
(* the op the pattern is applied to, id the next free value id.            *)
(***************************************************************************)
\* the extract rule also reading the DistInfo of its operand
ExtractRTensorWithInfo(g, i, id) ==
    LET op == g[i]
        loc == op.loc
        inpPtTyp == TypeOf(g, op.args[1])
    IN  IF ~isDistTensorType(inpPtTyp) THEN Failure(g, i, id)
        ELSE Success(g, i,
               << Op(loc, id, "dist.get_info", <<op.args[1]>>, "", 0, TyInfo(inpPtTyp.rank)),
                  Op(loc, id + 1, "dist.get_ptensor", <<op.args[1]>>, "", 0,
                     getPTensorType(inpPtTyp)),
                  Op(loc, id + 2, "ptensor.extract_rtensor", <<id + 1>>, "", 0,
                     getRtensor(inpPtTyp)) >>)

\* DistExtractRTensorOpRWP::matchAndRewrite
ExtractRTensorMatchAndRewrite(g, i, id) ==
    LET op == g[i]
        loc == op.loc
        inpPtTyp == TypeOf(g, op.args[1])
    IN  IF ~isDistTensorType(inpPtTyp) THEN Failure(g, i, id)
        ELSE Success(g, i,
               << Op(loc, id, "dist.get_ptensor", <<op.args[1]>>, "", 0, getPTensorType(inpPtTyp)),
                  Op(loc, id + 1, "ptensor.extract_rtensor", <<id>>, "", 0, getRtensor(inpPtTyp)) >>)

\* the team of the original op handed on to the re-issued arange
dmyTeam == ArgTeam

\* the absent team operand of the re-issued arange
dmy == NoVal

\* the local stop computed from the global start: stop = start + tmp2
localStartStopFromStart(loc, off, offsets, zero, lSz, start, step) ==
    << Op(loc, off, "tensor.extract", <<offsets, zero>>, "", 0, TyI64),
       Op(loc, off + 1, "arith.muli", <<off, step>>, "", 0, TyI64),
       Op(loc, off + 2, "arith.addi", <<start, off + 1>>, "", 0, TyI64),
       Op(loc, off + 3, "arith.muli", <<lSz, step>>, "", 0, TyI64),
       Op(loc, off + 4, "arith.addi", <<start, off + 3>>, "", 0, TyI64) >>

\* local start and stop of the re-issued arange: off = offsets[zero], tmp = off * step,
\* start' = start + tmp, tmp2 = lSz * step, stop = start' + tmp2
localStartStop(loc, off, offsets, zero, lSz, start, step) ==
    << Op(loc, off, "tensor.extract", <<offsets, zero>>, "", 0, TyI64),
       Op(loc, off + 1, "arith.muli", <<off, step>>, "", 0, TyI64),
       Op(loc, off + 2, "arith.addi", <<start, off + 1>>, "", 0, TyI64),
       Op(loc, off + 3, "arith.muli", <<lSz, step>>, "", 0, TyI64),
       Op(loc, off + 4, "arith.addi", <<off + 2, off + 3>>, "", 0, TyI64) >>

\* DistARangeOpRWP::matchAndRewrite
\* (ids: count = id+9, gShpTnsr = id+10, gShape = id+11, info = id+12,
\*  lShapeVVec_mr = id+13, zero = id+14, lSz = id+15, offsets = id+16, off = id+17,
\*  tmp = id+18, start' = id+19, tmp2 = id+20, stop = id+21, arres = id+22)
ARangeMatchAndRewrite(g, i, id) ==
    LET op == g[i]
        loc == op.loc
        team == op.args[5]
    IN  IF team = NoVal THEN Failure(g, i, id)
        ELSE
        LET start == op.args[1]
            step == op.args[3]
            rank == 1
            artype == TyPT(<<-1>>)
        IN  Success(g, i,
                createCountARange(loc, id, start, op.args[2], step) \o
                << Op(loc, id + 10, "tensor.empty", <<id + 9>>, "", 0, TyRT(<<-1>>)),
                   Op(loc, id + 11, "shape.shape_of", <<id + 10>>, "", 0, TyShape) >> \o
                createDistInfo(loc, id + 12, rank, id + 11, team) \o
                createGetLocalShape(loc, id + 13, id + 12) \o
                createIndex(loc, id + 14, 0) \o
                << Op(loc, id + 15, "tensor.extract", <<id + 13, id + 14>>, "", 0, TyI64) >> \o
                createGetLocalOffsets(loc, id + 16, id + 12) \o
                localStartStop(loc, id + 17, id + 16, id + 14, id + 15, start, step) \o
                << Op(loc, id + 22, "ptensor.arange", <<id + 19, id + 21, step, op.args[4], dmy>>,
                      "", 0, artype) >> \o
                createMkTnsr(loc, id + 23, id + 22, id + 12, artype))

\* the rule declining only when neither operand is distributed
notBothPlain(lhsDtTyp, rhsDtTyp) ==
    ~isDistTensorType(lhsDtTyp) /\ ~isDistTensorType(rhsDtTyp)

\* the rule looking at the type of its left operand only
notLhsDistributed(lhsDtTyp, rhsDtTyp) == ~isDistTensorType(lhsDtTyp)

\* if (!lhsDtTyp || !rhsDtTyp) return failure()
notDistributed(lhsDtTyp, rhsDtTyp) ==
    ~isDistTensorType(lhsDtTyp) \/ ~isDistTensorType(rhsDtTyp)

\* DistEWBinOpRWP::matchAndRewrite
\* (ids: gShape = id, lLhs = id+3, lRhs = id+6, ewbres = id+7, team = id+9, info = id+10)
EWBinMatchAndRewrite(g, i, id) ==
    LET op == g[i]
        loc == op.loc
        lhsDtTyp == TypeOf(g, op.args[1])
        rhsDtTyp == TypeOf(g, op.args[2])
    IN  IF notDistributed(lhsDtTyp, rhsDtTyp) THEN Failure(g, i, id)
        ELSE
        LET gShapeARef == lhsDtTyp.shape
            retPtTyp == getPTensorType(lhsDtTyp)
        IN  Success(g, i,
                << Op(loc, id, "shape.const_shape", <<>>, "", 0,
                      Ty("shape", gShapeARef, Len(gShapeARef))) >> \o
                createGetLocal(loc, id + 1, op.args[1], lhsDtTyp) \o
                createGetLocal(loc, id + 4, op.args[2], rhsDtTyp) \o
                << Op(loc, id + 7, "ptensor.ewbin", <<id + 3, id + 6>>, op.attr, 0, retPtTyp) >> \o
                createTeamOf(loc, id + 8, op.args[1], lhsDtTyp) \o
                createDistInfo(loc, id + 10, 1, id, id + 9) \o
                createMkTnsr(loc, id + 11, id + 7, id + 10, retPtTyp))

\* DistReductionOpRWP::matchAndRewrite
\* (ids: gShape = id, local = id+3, redPTnsr = id+4, retRTnsr = id+6, team = id+8,
\*  info = id+9, dmy = id+10, resPTnsr = id+11)
ReductionMatchAndRewrite(g, i, id) ==
    LET op == g[i]
        loc == op.loc
        inpDtTyp == TypeOf(g, op.args[1])
    IN  IF ~isDistTensorType(inpDtTyp) THEN Failure(g, i, id)
        ELSE
        LET dtype == inpDtTyp.elt
            retPtTyp == TensorTy("ptensor", <<>>, dtype)
        IN  Success(g, i,
                << Op(loc, id, "shape.const_shape", <<>>, "", 0, Ty("shape", <<>>, 0)) >> \o
                createGetLocal(loc, id + 1, op.args[1], inpDtTyp) \o
                << Op(loc, id + 4, "ptensor.reduction", <<id + 3>>, op.attr, 0, retPtTyp) >> \o
                createAllReduce(loc, id + 5, op.attr, id + 4, retPtTyp) \o
                createTeamOf(loc, id + 7, op.args[1], inpDtTyp) \o
                createDistInfo(loc, id + 9, 1, id, id + 8) \o
                createInt(loc, id + 10, 0, TyI1) \o
                << Op(loc, id + 11, "ptensor.init_ptensor", <<id + 6, id + 10, id + 8>>,
                      "dist", 0, retPtTyp) >> \o
                createMkTnsr(loc, id + 12, id + 11, id + 9, retPtTyp))

\* the pattern whose root is the kind of op g[i] (insertPatterns<...>), applied to it
applyPattern(g, i, id) ==
    CASE g[i].kind = "ptensor.arange" -> ARangeMatchAndRewrite(g, i, id)
      [] g[i].kind = "ptensor.ewbin" -> EWBinMatchAndRewrite(g, i, id)
      [] g[i].kind = "ptensor.reduction" -> ReductionMatchAndRewrite(g, i, id)
      [] g[i].kind = "ptensor.extract_rtensor" -> ExtractRTensorMatchAndRewrite(g, i, id)
      [] OTHER -> Failure(g, i, id)

(***************************************************************************)
(* Meaning of the IR.  i64 and index values are IntBits-bit two's          *)
(* complement integers; a tensor is its shape and its elements.            *)
(***************************************************************************)
Modulus == 2 ^ IntBits
Unsigned(x) == x % Modulus
Wrap(x) == IF x % Modulus >= Modulus \div 2 THEN (x % Modulus) - Modulus ELSE x % Modulus
MinInt == -(Modulus \div 2)
MaxInt == (Modulus \div 2) - 1

\* arith.divui: both operands are read as unsigned
DivUI(a, b) == IF Unsigned(b) = 0 THEN 0 ELSE Wrap(Unsigned(a) \div Unsigned(b))

Min(a, b) == IF a < b THEN a ELSE b
Max(a, b) == IF a > b THEN a ELSE b

\* length of the half-open progression start, start+step, ... before stop
RangeCount(start, stop, step) ==
    IF step > 0
    THEN (IF stop <= start THEN 0 ELSE (stop - start + step - 1) \div step)
    ELSE (IF stop >= start THEN 0 ELSE (start - stop - step - 1) \div (-step))

\* the tensor a ptensor.arange op yields
RangeTensor(start, stop, step) ==
    LET n == RangeCount(start, stop, step)
    IN  [shape |-> <<n>>, data |-> [k \in 1..n |-> Wrap(start + (k - 1) * step)]]

\* the part of n elements worker r of nprocs owns: <<offset, size>>
Partition(n, nprocs, r, policy) ==
    LET N == Max(n, 0)
        sz == (N + nprocs - 1) \div nprocs
        off == Min(r * sz, N)
    IN  CASE policy = "block" -> <<off, Min(sz, N - off)>>
          [] policy = "front" -> IF r = 0 THEN <<0, N>> ELSE <<N, 0>>
          [] OTHER -> IF r = nprocs - 1 THEN <<0, N>> ELSE <<0, 0>>

\* dist.extract_from_info LSHAPE / LOFFSETS on worker r
LocalShape(info, e, r) ==
    [k \in DOMAIN info.gshape |-> Partition(info.gshape[k], e.nprocs, r, e.policy)[2]]
LocalOffsets(info, e, r) ==
    [k \in DOMAIN info.gshape |-> Partition(info.gshape[k], e.nprocs, r, e.policy)[1]]

BinOp(opc, a, b) ==
    CASE opc \in {"add", "sum"} -> Wrap(a + b)
      [] opc = "prod" -> Wrap(a * b)
      [] opc = "min" -> Min(a, b)
      [] OTHER -> Max(a, b)

Identity(opc) ==
    CASE opc = "sum" -> 0
      [] opc = "prod" -> 1
      [] opc = "min" -> MaxInt
      [] OTHER -> MinInt

RECURSIVE Reduce(_, _)
Reduce(opc, s) ==
    IF s = <<>> THEN Identity(opc) ELSE BinOp(opc, Head(s), Reduce(opc, Tail(s)))

ArgValue(v, e) ==
    CASE v = ArgStart -> e.start
      [] v = ArgStop -> e.stop
      [] v = ArgStep -> e.step
      [] v = ArgDevice -> 0
      [] v = ArgTeam -> 1
      [] OTHER -> [shape |-> <<2>>, data |-> <<1, 2>>]

At(s, k) == IF k \in DOMAIN s THEN s[k] ELSE 0

\* dist.extract_from_info on worker r
ExtractFromInfo(attr, info, e, r) ==
    CASE attr = "LSHAPE" ->
            [shape |-> <<Len(info.gshape)>>, data |-> LocalShape(info, e, r)]
      [] attr = "LOFFSETS" ->
            [shape |-> <<Len(info.gshape)>>, data |-> LocalOffsets(info, e, r)]
      [] OTHER -> info.team

\* dist.allreduce on worker r: parts[w] is the tensor worker w-1 contributes
AllReduce(opc, parts, r) ==
    [shape |-> parts[r + 1].shape,
     data |-> [k \in DOMAIN parts[r + 1].data |->
                 Reduce(opc, [w \in DOMAIN parts |-> At(parts[w].data, k)])]]

\* ptensor.ewbin of two local tensors
EWBin(opc, a, b) ==
    [shape |-> a.shape,
     data |-> [k \in DOMAIN a.data |-> BinOp(opc, a.data[k], At(b.data, k))]]

\* the value of operand v on worker r, V holding the values of the ops before it
Operand(V, v, e, r) == IF IsArg(v) THEN ArgValue(v, e) ELSE V[v].at[r + 1]

\* the result of op o on worker r
Exec(o, V, e, r) ==
    LET A(k) == Operand(V, o.args[k], e, r)
    IN  CASE o.kind = "arith.constant" -> o.val
          [] o.kind = "arith.cmpi" -> IF A(1) < A(2) THEN 1 ELSE 0
          [] o.kind = "arith.select" -> IF A(1) = 1 THEN A(2) ELSE A(3)
          [] o.kind = "arith.addi" -> Wrap(A(1) + A(2))
          [] o.kind = "arith.subi" -> Wrap(A(1) - A(2))
          [] o.kind = "arith.muli" -> Wrap(A(1) * A(2))
          [] o.kind = "arith.divui" -> DivUI(A(1), A(2))
          [] o.kind = "arith.index_cast" -> A(1)
          [] o.kind = "tensor.empty" -> [shape |-> <<A(1)>>, data |-> <<>>]
          [] o.kind = "tensor.extract" -> At(A(1).data, A(2) + 1)
          [] o.kind = "shape.shape_of" -> A(1).shape
          [] o.kind = "shape.const_shape" -> o.ty.shape
          [] o.kind = "dist.dist_info" -> [rank |-> o.val, gshape |-> A(1), team |-> A(2)]
          [] o.kind = "dist.extract_from_info" -> ExtractFromInfo(o.attr, A(1), e, r)
          [] o.kind = "dist.get_info" -> A(1).info
          [] o.kind = "dist.get_ptensor" -> A(1).local
          [] o.kind = "dist.init_dist_tensor" -> [local |-> A(1), info |-> A(2)]
          [] o.kind = "dist.allreduce" ->
                AllReduce(o.attr, [w \in 1..e.nprocs |-> Operand(V, o.args[1], e, w - 1)], r)
          [] o.kind = "ptensor.arange" -> RangeTensor(A(1), A(2), A(3))
          [] o.kind = "ptensor.ewbin" -> EWBin(o.attr, A(1), A(2))
          [] o.kind = "ptensor.reduction" ->
                [shape |-> <<>>, data |-> <<Reduce(o.attr, A(1).data)>>]
          [] OTHER -> IF o.args = <<>> THEN 0 ELSE A(1)

\* the results of op o on workers 0..n-1
RECURSIVE OnWorkers(_, _, _, _)
OnWorkers(o, V, e, n) ==
    IF n = 0 THEN <<>> ELSE Append(OnWorkers(o, V, e, n - 1), Exec(o, V, e, n - 1))

\* V, the results of the ops before o, and the result of o: whether it is a distributed
\* tensor (dist), whether the op could run (ok) and its values (at[r + 1] is the value
\* on worker r).  Apart from the dist ops that unpack one, no op can run on an operand
\* that is (still) a distributed tensor.
Step(o, V, e) ==
    LET ok == \A j \in DOMAIN o.args :
                  \/ o.args[j] = NoVal
                  \/ IsArg(o.args[j])
                  \/ /\ V[o.args[j]].ok
                     /\ ~V[o.args[j]].dist \/ o.kind \in {"dist.get_ptensor", "dist.get_info"}
    IN  (o.id :> [dist |-> isDistTensorType(o.ty),
                  ok |-> ok,
                  at |-> IF ok THEN OnWorkers(o, V, e, e.nprocs) ELSE <<>>]) @@ V

\* the ops of g from the k-th on, run in program order after those that gave V
RECURSIVE Run(_, _, _, _)
Run(g, k, V, e) ==
    IF k > Len(g) THEN V
    ELSE LET W == Step(g[k], V, e)
         IN  IF g[k].id \in DOMAIN W THEN Run(g, k + 1, W, e) ELSE V

\* the values of all results of function body g
Values(g, e) == Run(g, 1, <<>>, e)

(***************************************************************************)
(* Input functions.  Parameters: start, stop, step, device, team (i64) and *)
(* one plain ptensor; no parameter is a distributed tensor.  The body is a *)
(* well-typed sequence of ptensor ops followed by func.return.             *)
(***************************************************************************)
ARangeOp(id, team) ==
    Op(id, id, "ptensor.arange",
       <<ArgStart, ArgStop, ArgStep, IF team = NoVal THEN NoVal ELSE ArgDevice, team>>,
       "", 0, TyPT(<<-1>>))
EWBinOp(id, a, b, ty) == Op(id, id, "ptensor.ewbin", <<a, b>>, "add", 0, ty)
ReductionOp(id, a, opc) == Op(id, id, "ptensor.reduction", <<a>>, opc, 0, TyPT(<<>>))
ExtractRTensorOp(id, a, ty) == Op(id, id, "ptensor.extract_rtensor", <<a>>, "", 0, getRtensor(ty))
CastOp(id, a) == Op(id, id, "builtin.unrealized_conversion_cast", <<a>>, "", 0, TyI64)
ReturnOp(id, a) == Op(id, id, "func.return", IF a = NoVal THEN <<>> ELSE <<a>>, "", 0, TyNone)

\* the ptensor-typed values an op appended to g may use
PTensors(g) == {ArgPT} \cup {g[k].id : k \in {j \in DOMAIN g : isPTensorType(g[j].ty)}}

\* the ops that may follow body g
InputOps(g) ==
    LET id == FirstOpId + Len(g)
        P == PTensors(g)
    IN  {ARangeOp(id, ArgTeam), ARangeOp(id, NoVal)}
        \cup {EWBinOp(id, p[1], p[2], TypeOf(g, p[1])) :
                 p \in {q \in P \X P : TypeOf(g, q[1]) = TypeOf(g, q[2])}}
        \cup {ReductionOp(id, a, "sum") : a \in P}
        \cup {ExtractRTensorOp(id, a, TypeOf(g, a)) : a \in P}
        \cup {CastOp(id, a) : a \in P}

RECURSIVE Bodies(_)
Bodies(n) ==
    IF n = 0 THEN {<<>>}
    ELSE LET B == Bodies(n - 1)
         IN  B \cup UNION {{Append(g, o) : o \in InputOps(g)} : g \in {h \in B : Len(h) = n - 1}}

\* a body closed by a return of nothing or of any of its values
Functions(B) ==
    UNION {{Append(g, ReturnOp(FirstOpId + Len(g), a)) : a \in {NoVal, ArgPT} \cup OpIds(g)}
              : g \in B}

\* test_arange of ptensor-dist: a range over a team feeding both operands of ewbin
TestARange ==
    << ARangeOp(FirstOpId, ArgTeam),
       EWBinOp(FirstOpId + 1, FirstOpId, FirstOpId, TyPT(<<-1>>)),
       CastOp(FirstOpId + 2, FirstOpId + 1),
       ReturnOp(FirstOpId + 3, FirstOpId + 2) >>

\* a distributed range, reduced; the ranked tensor of the result is extracted
ReduceARange(opc) ==
    << ARangeOp(FirstOpId, ArgTeam),
       ReductionOp(FirstOpId + 1, FirstOpId, opc),
       ExtractRTensorOp(FirstOpId + 2, FirstOpId + 1, TyPT(<<>>)),
       ReturnOp(FirstOpId + 3, FirstOpId + 2) >>

\* a distributed range reduced twice: two collectives in one function
ReduceTwice ==
    << ARangeOp(FirstOpId, ArgTeam),
       ReductionOp(FirstOpId + 1, FirstOpId, "sum"),
       ReductionOp(FirstOpId + 2, FirstOpId, "max"),
       CastOp(FirstOpId + 3, FirstOpId + 1),
       ReturnOp(FirstOpId + 4, FirstOpId + 3) >>

ReductionOpcodes == {"sum", "prod", "min", "max"}
Policies == {"block", "front", "back"}

Envs ==
    [start : -MaxAbs..MaxAbs, stop : -MaxAbs..MaxAbs, step : (-MaxAbs..MaxAbs) \ {0},
     nprocs : 1..MaxProcs, policy : Policies]

\* the runs whose range is a tensor of consecutive integers
TensorEnvs == {e \in Envs : e.step = 1}

\* main of ptensor_arange.mlir: arange(0, 10, 2), on a team of two
Scenario == [start |-> 0, stop |-> 10, step |-> 2, nprocs |-> 2, policy |-> "block"]

\* workers holding [1,2] and [3,4]: arange(1, 5, 1) on a team of two
SumScenario == [start |-> 1, stop |-> 5, step |-> 1, nprocs |-> 2, policy |-> "block"]

Init ==
    /\ \/ /\ ir \in Functions(Bodies(MaxOps))
          /\ env = Scenario
       \/ /\ ir = TestARange
          /\ env \in Envs \cup {Scenario, SumScenario}
       \/ /\ ir \in {ReduceARange(opc) : opc \in ReductionOpcodes}
          /\ env \in TensorEnvs \cup {Scenario, SumScenario}
       \/ /\ ir = ReduceTwice
          /\ env \in {Scenario, SumScenario}
    /\ input = ir
    /\ nextId = FirstOpId + Len(ir)
    /\ res = "none"
    /\ rewrites = 0
    /\ pc = "run"

(***************************************************************************)
(* The greedy driver (applyPatternsAndFoldGreedily): it applies, in an     *)
(* order of its choosing, the pattern rooted at an op to that op, until no *)
(* pattern succeeds on any op.                                             *)
(***************************************************************************)
Apply(r) ==
    /\ ir' = r.ir
    /\ nextId' = r.next
    /\ res' = r.result
    /\ rewrites' = IF r.result = "success" THEN rewrites + 1 ELSE rewrites
    /\ UNCHANGED <<input, pc, env>>

Root(i, kind) ==
    /\ pc = "run"
    /\ nextId < MaxIds
    /\ i \in DOMAIN ir
    /\ ir[i].kind = kind

DistARangeOpRWP(i) ==
    /\ Root(i, "ptensor.arange")
    /\ \E r \in {ARangeMatchAndRewrite(ir, i, nextId)} : Apply(r)

DistEWBinOpRWP(i) ==
    /\ Root(i, "ptensor.ewbin")
    /\ \E r \in {EWBinMatchAndRewrite(ir, i, nextId)} : Apply(r)

DistReductionOpRWP(i) ==
    /\ Root(i, "ptensor.reduction")
    /\ \E r \in {ReductionMatchAndRewrite(ir, i, nextId)} : Apply(r)

DistExtractRTensorOpRWP(i) ==
    /\ Root(i, "ptensor.extract_rtensor")
    /\ \E r \in {ExtractRTensorMatchAndRewrite(ir, i, nextId)} : Apply(r)

\* a driver that looks for further work at range ops only
MatchesARange(g, i) ==
    g[i].kind = "ptensor.arange" /\ applyPattern(g, i, 0).result = "success"

\* a pattern would rewrite op g[i]
Matches(g, i) == applyPattern(g, i, 0).result = "success"

\* the driver has converged: a sweep over all ops changed nothing
Converge ==
    /\ pc = "run"
    /\ \A i \in DOMAIN ir : ~Matches(ir, i)
    /\ pc' = "done"
    /\ UNCHANGED <<ir, input, nextId, res, rewrites, env>>

runOnOperation ==
    \/ \E i \in DOMAIN ir : DistARangeOpRWP(i)
    \/ \E i \in DOMAIN ir : DistEWBinOpRWP(i)
    \/ \E i \in DOMAIN ir : DistReductionOpRWP(i)
    \/ \E i \in DOMAIN ir : DistExtractRTensorOpRWP(i)
    \/ Converge

Next == runOnOperation

Spec == Init /\ [][Next]_vars

\* the driver keeps sweeping while a pattern applies, and returns when none does
FairSpec == Spec /\ WF_vars(Next)

(***************************************************************************)
(* Properties.                                                             *)
(***************************************************************************)
Ops(g) == Range(g)
Created(o) == o.id \notin OpIds(input)
TeamBearing(g) == \E o \in Ops(g) : o.kind = "ptensor.arange" /\ o.args[5] # NoVal
Dist(g, v) == v # NoVal /\ isDistTensorType(TypeOf(g, v))

\* no op of g has the shape one of the four patterns rewrites
NoRuleMatches(g) ==
    \A o \in Ops(g) :
        /\ ~(o.kind = "ptensor.arange" /\ o.args[5] # NoVal)
        /\ ~(o.kind = "ptensor.ewbin" /\ Dist(g, o.args[1]) /\ Dist(g, o.args[2]))
        /\ ~(o.kind = "ptensor.reduction" /\ Dist(g, o.args[1]))
        /\ ~(o.kind = "ptensor.extract_rtensor" /\ Dist(g, o.args[1]))

\* C1: whatever order the driver applies the four patterns in, after finitely many
\* rewrites it reaches a function body in which no pattern matches, and returns.
C1_Termination == <>(pc = "done" /\ NoRuleMatches(ir))

\* the driver has returned after rewriting a range, an ewbin and more
C1_Witness == pc = "done" /\ rewrites >= 3 /\ NoRuleMatches(ir)

Workers == 0..(env.nprocs - 1)
The(S) == CHOOSE x \in S : TRUE
\* the ops of kind k a pattern created when it rewrote the input op at loc
CreatedBy(loc, k) == {o \in Ops(ir) : Created(o) /\ o.loc = loc /\ o.kind = k}
\* the input op a created op stems from
Orig(o) == OpOf(input, o.loc)
\* the distributed value a local ptensor made by createGetLocal was taken from
LocalSource(v) == OpOf(ir, OpOf(ir, OpOf(ir, v).args[1]).args[1]).args[1]

\* f[0] \o ... \o f[n-1]
RECURSIVE Cat(_, _)
Cat(f, n) == IF n = 0 THEN <<>> ELSE Cat(f, n - 1) \o f[n - 1]

\* the re-issued (local) range ops
LocalRanges == {o \in Ops(ir) : o.kind = "ptensor.arange" /\ Created(o)}

\* C3: the local ranges of workers 0..W-1, concatenated in rank order, are the global
\* sequence start, start+step, ... before stop, for every W, start, stop and step # 0.
C3_RangeCovering ==
    LocalRanges # {} =>
        LET V == Values(ir, env)
            G == Values(input, env)
        IN  \A o \in LocalRanges :
                Cat([r \in Workers |-> V[o.id].at[r + 1].data], env.nprocs) = G[o.loc].at[1].data

\* the wraps of the results of rewritten reductions
ReductionResults ==
    {w \in Ops(ir) : /\ w.kind = "dist.init_dist_tensor"
                     /\ Created(w)
                     /\ Orig(w).kind = "ptensor.reduction"}

\* the distributed operand of the reduction rewritten into w
ReductionInput(w) == The(CreatedBy(w.loc, "dist.get_ptensor")).args[1]

\* all local partitions of distributed value v, in rank order (V: the values of ir)
FullTensor(V, v) == Cat([r \in Workers |-> V[v].at[r + 1].local.data], env.nprocs)

\* C4: after the reduction rule has fired, every worker holds the same value, the
\* reduction (with the op's opcode) of the whole unpartitioned tensor.
C4_ReductionConsistency ==
    ReductionResults # {} =>
        LET V == Values(ir, env)
        IN  \A w \in ReductionResults :
                LET whole == << Reduce(Orig(w).attr, FullTensor(V, ReductionInput(w))) >>
                IN  \A r \in Workers : V[w.id].at[r + 1].local.data = whole

\* sum over partitions [1,2] and [3,4]: partials 3 and 7, every worker observes 10
C4_Witness ==
    /\ env = SumScenario
    /\ pc = "done"
    /\ \E w \in ReductionResults :
          LET V == Values(ir, env)
              partial == The(CreatedBy(w.loc, "ptensor.reduction")).id
          IN  /\ Orig(w).attr = "sum"
              /\ V[ReductionInput(w)].at[1].local.data = <<1, 2>>
              /\ V[ReductionInput(w)].at[2].local.data = <<3, 4>>
              /\ V[partial].at[1].data = <<3>>
              /\ V[partial].at[2].data = <<7>>
              /\ \A r \in Workers : V[w.id].at[r + 1].local.data = <<10>>

\* the re-issued (local) ewbin ops
LocalEWBins == {o \in Ops(ir) : o.kind = "ptensor.ewbin" /\ Created(o)}

\* C5: after the ewbin rule has fired, the shape of the local result is the local shape
\* of the output's DistInfo, and the output's global shape is the operands' global shape.
C5_EWBinShape ==
    LocalEWBins # {} =>
        LET V == Values(ir, env)
        IN  \A e \in LocalEWBins : \A r \in Workers :
                LET out == V[The(CreatedBy(e.loc, "dist.init_dist_tensor")).id].at[r + 1]
                    inp == V[LocalSource(e.args[1])].at[r + 1]
                IN  /\ out.local.shape = LocalShape(out.info, env, r)
                    /\ out.info.gshape = inp.info.gshape

\* C6: once the pass has run, no operand of the function's return is a distributed
\* tensor (the parameters of the function are plain by construction).
C6_NoBoundaryLeak ==
    pc = "done" =>
        \A o \in Ops(ir) : o.kind = "func.return" =>
            \A k \in DOMAIN o.args : ~Dist(ir, o.args[k])

\* the op at position i of ir is gone from ir', all its uses too, and the n new ops
\* stand where it stood
ReplacedAt(i, n) ==
    /\ n >= 1
    /\ Len(ir') = Len(ir) - 1 + n
    /\ SubSeq(ir', 1, i - 1) = SubSeq(ir, 1, i - 1)
    /\ \A k \in i..(i + n - 1) : ir'[k].id \in nextId..(nextId' - 1)
    /\ \A k \in (i + n)..Len(ir') :
          /\ ir'[k].id = ir[k - n + 1].id
          /\ ir'[k].kind = ir[k - n + 1].kind
    /\ \A o \in Range(ir') : \A k \in DOMAIN o.args : o.args[k] # ir[i].id

\* C7: a pattern application either reports failure and leaves the IR as it was, or
\* reports success and has replaced the matched op completely, in one step.
C7_AtomicRules ==
    [][ /\ (res' = "failure" \/ rewrites' = rewrites) => (ir' = ir /\ nextId' = nextId)
        /\ rewrites' # rewrites =>
              /\ res' = "success"
              /\ \E i \in DOMAIN ir : ReplacedAt(i, nextId' - nextId) ]_vars

\* a pattern has failed on an op after another pattern rewrote one
C7_Witness == res = "failure" /\ rewrites >= 1 /\ ir # input /\ pc = "run"

\* C8: the re-issued range gets start' = start + offset*step, stop' = start' +
\* localCount*step (i64 arithmetic) and the step of the original op, offset and
\* localCount being element 0 of the local offsets and local shape of its DistInfo.
C8_LocalBounds ==
    LocalRanges # {} =>
        LET V == Values(ir, env)
            G == Values(input, env)
        IN  \A o \in LocalRanges : \A r \in Workers :
                LET info == V[The(CreatedBy(o.loc, "dist.dist_info")).id].at[r + 1]
                    offset == LocalOffsets(info, env, r)[1]
                    localCount == LocalShape(info, env, r)[1]
                    start == Operand(G, Orig(o).args[1], env, r)
                    step == Operand(G, Orig(o).args[3], env, r)
                    start2 == Operand(V, o.args[1], env, r)
                    stop2 == Operand(V, o.args[2], env, r)
                IN  /\ start2 = Wrap(start + offset * step)
                    /\ stop2 = Wrap(start2 + localCount * step)
                    /\ o.args[3] = Orig(o).args[3]
                    /\ (env = Scenario /\ r = 0) =>
                           (offset = 0 /\ localCount = 3 /\ start2 = 0 /\ stop2 = 6)
                    /\ (env = Scenario /\ r = 1) =>
                           (offset = 3 /\ localCount = 2 /\ start2 = 6 /\ stop2 = 10)

\* team of two, arange(0, 10, 2): the range rule has fired and the bounds are 0,6 and 6,10
C8_Witness ==
    /\ env = Scenario
    /\ \E o \in LocalRanges :
          LET V == Values(ir, env)
          IN  /\ <<V[o.args[1]].at[1], V[o.args[2]].at[1]>> = <<0, 6>>
              /\ <<V[o.args[1]].at[2], V[o.args[2]].at[2]>> = <<6, 10>>

\* C9: the element count the range rule computes, which is the global shape of the
\* DistInfo, is max(0, ceil((stop-start)/step)), for step > 0 and step < 0 alike.
C9_GlobalCount ==
    LocalRanges # {} =>
        LET V == Values(ir, env)
            G == Values(input, env)
        IN  \A o \in LocalRanges :
                LET count == V[The(CreatedBy(o.loc, "arith.index_cast")).id].at[1]
                    info == V[The(CreatedBy(o.loc, "dist.dist_info")).id].at[1]
                    orig == Orig(o)
                    n == RangeCount(Operand(G, orig.args[1], env, 0),
                                    Operand(G, orig.args[2], env, 0),
                                    Operand(G, orig.args[3], env, 0))
                IN  count = n /\ info.gshape = <<n>>

BothDist(g, o) == Dist(g, o.args[1]) /\ Dist(g, o.args[2])

\* C10: the ewbin rule succeeds on an ewbin op exactly when both operands are
\* distributed; an ewbin op with one distributed operand or none is rewritten by no
\* rule: it stays in the body, in every step and in the output of the pass.
C10_EWBinGuard ==
    /\ [](\A i \in DOMAIN ir : ir[i].kind = "ptensor.ewbin" =>
             /\ (EWBinMatchAndRewrite(ir, i, nextId).result = "success") <=> BothDist(ir, ir[i])
             /\ Matches(ir, i) <=> BothDist(ir, ir[i]))
    /\ [][\A o \in Ops(ir) : (o.kind = "ptensor.ewbin" /\ ~BothDist(ir, o)) =>
             \E o2 \in Range(ir') :
                 /\ o2.id = o.id /\ o2.kind = o.kind /\ o2.attr = o.attr
                 /\ o2.ty = o.ty /\ o2.loc = o.loc
                 /\ \A k \in DOMAIN o.args :
                       o2.args[k] = o.args[k] \/ o.args[k] \notin OpIds(ir')]_vars

\* the pass has run and has left an ewbin op with exactly one distributed operand
C10_Witness ==
    /\ pc = "done"
    /\ \E o \in Ops(ir) :
          /\ o.kind = "ptensor.ewbin"
          /\ ~Created(o)
          /\ Dist(ir, o.args[1]) # Dist(ir, o.args[2])

\* the distributed tensors the pass has made
DistTensors == {o \in Ops(ir) : o.kind = "dist.init_dist_tensor" /\ Created(o)}

\* the team reads made by createTeamOf
TeamReads ==
    {o \in Ops(ir) : o.kind = "dist.extract_from_info" /\ o.attr = "TEAM" /\ Created(o)}

\* C11: the team in the DistInfo of every distributed tensor the pass makes is the team
\* of the range op the chain started at; every teamOf yields the team of the tensor it
\* is applied to, and the ewbin and reduction rules build the output DistInfo from the
\* team of their (left) operand.
C11_TeamIdentity ==
    DistTensors # {} =>
        LET V == Values(ir, env)
            T == ArgValue(ArgTeam, env)
        IN  /\ \A w \in DistTensors : \A r \in Workers :
                  V[w.id].ok /\ V[w.id].at[r + 1].info.team = T
            /\ \A t \in TeamReads : \A r \in Workers :
                  /\ V[t.id].at[r + 1] = V[OpOf(ir, t.args[1]).args[1]].at[r + 1].info.team
                  /\ OpOf(ir, OpOf(ir, t.args[1]).args[1]).loc = Orig(t).args[1]
            /\ \A w \in DistTensors :
                  Orig(w).kind \in {"ptensor.ewbin", "ptensor.reduction"} =>
                      OpOf(ir, w.args[2]).args[2]
                          \in {t.id : t \in {x \in TeamReads : x.loc = w.loc}}

\* range -> ewbin or reduction: the derived distributed tensor carries the range's team
C11_Witness ==
    /\ pc = "done"
    /\ \E w \in DistTensors : \E a \in DistTensors :
          /\ Orig(w).kind \in {"ptensor.ewbin", "ptensor.reduction"}
          /\ Orig(a).kind = "ptensor.arange"
          /\ Orig(w).args[1] = a.loc
          /\ OpOf(ir, a.args[2]).args[2] = ArgTeam
          /\ Values(ir, env)[w.id].at[1].info.team = ArgValue(ArgTeam, env)

\* the DistInfoOp wrapped into distributed tensor w
InfoOf(w) == OpOf(ir, w.args[2])

\* C12: the rank of the DistInfo wrapped into a distributed tensor the pass makes is
\* the rank of the local tensor it is wrapped around.
C12_InfoRank ==
    \A w \in DistTensors :
        /\ InfoOf(w).val = TypeOf(ir, w.args[1]).rank
        /\ InfoOf(w).ty.rank = TypeOf(ir, w.args[1]).rank

\* the DistInfo constructions the pass has emitted
DistInfos == {o \in Ops(ir) : o.kind = "dist.dist_info" /\ Created(o)}

\* C13: every DistInfo construction the pass emits is given rank >= 1 and a global
\* shape of exactly rank dimensions.
C13_DistInfoPrecondition ==
    DistInfos # {} =>
        LET V == Values(ir, env)
        IN  \A d \in DistInfos : \A r \in Workers :
                /\ d.val >= 1
                /\ V[d.args[1]].ok
                /\ Len(V[d.args[1]].at[r + 1]) = d.val

\* v will be a distributed tensor: it stems from a range with a team through ewbin and
\* reduction ops
RECURSIVE DistIn(_, _)
DistIn(g, v) ==
    IF v = NoVal \/ IsArg(v) THEN FALSE
    ELSE LET o == OpOf(g, v)
         IN  CASE o.kind = "ptensor.arange" -> o.args[5] # NoVal
               [] o.kind = "ptensor.ewbin" -> DistIn(g, o.args[1]) /\ DistIn(g, o.args[2])
               [] o.kind = "ptensor.reduction" -> DistIn(g, o.args[1])
               [] OTHER -> FALSE

IsDistReduction(o) == o.kind = "ptensor.reduction" /\ DistIn(input, o.args[1])
IsAllReduce(o) == o.kind = "dist.allreduce"

\* the source locations of the ops of s, in program order
Locs(s) == [k \in DOMAIN s |-> s[k].loc]

\* C14: the output has exactly one all-reduce per reduction over a distributed tensor,
\* the all-reduces are in the program order of the reductions they stem from, and every
\* op the pass creates stands where the op it replaces stood (so no collective moves
\* across another op of the function), whatever order the driver rewrote the ops in.
C14_CollectivesInOrder ==
    /\ \A j \in DOMAIN ir : \A k \in DOMAIN ir : j < k => ir[j].loc <= ir[k].loc
    /\ \A o \in Ops(ir) : IsAllReduce(o) => IsDistReduction(Orig(o))
    /\ pc = "done" =>
          Locs(SelectSeq(ir, IsAllReduce)) = Locs(SelectSeq(input, IsDistReduction))

\* two reductions of one distributed range: two all-reduces, in the reductions' order
C14_Witness ==
    /\ pc = "done"
    /\ input = ReduceTwice
    /\ Locs(SelectSeq(ir, IsAllReduce)) = <<FirstOpId + 1, FirstOpId + 2>>
    /\ SelectSeq(ir, IsAllReduce)[1].attr = "sum"
    /\ SelectSeq(ir, IsAllReduce)[2].attr = "max"

\* the positions in ir of the ops of kind k with attribute a
At2(k, a) == {j \in DOMAIN ir : ir[j].kind = k /\ ir[j].attr = a}
\* the positions in ir of the ops of kind k
OfKind(k) == {j \in DOMAIN ir : ir[j].kind = k}
\* every position of P is before every position of Q
Before(P, Q) == \A j \in P : \A k \in Q : j < k

CountArith ==
    OfKind("arith.cmpi") \cup OfKind("arith.select") \cup OfKind("arith.subi")
        \cup OfKind("arith.divui") \cup OfKind("arith.index_cast")

RootKinds ==
    {"ptensor.arange", "ptensor.ewbin", "ptensor.reduction", "ptensor.extract_rtensor"}

\* C16: an op a pattern creates of a kind the patterns are rooted at has no
\* distributed operand and, if it is a range, no team; no pattern matches it, neither
\* right after the rewrite that created it nor later.
C16_BoundedRecursion ==
    \A j \in DOMAIN ir :
        (Created(ir[j]) /\ ir[j].kind \in RootKinds) =>
            /\ \A k \in DOMAIN ir[j].args : ~Dist(ir, ir[j].args[k])
            /\ ir[j].kind = "ptensor.arange" => ir[j].args[5] = NoVal
            /\ ~Matches(ir, j)
            /\ applyPattern(ir, j, nextId).ir = ir

\* a rewrite has just created a local range, a local ewbin or a local reduction, and
\* extract ops
C16_Witness ==
    /\ res = "success"
    /\ \E o \in Ops(ir) : Created(o) /\ o.kind = "ptensor.arange"
    /\ \E o \in Ops(ir) : Created(o) /\ o.kind \in {"ptensor.ewbin", "ptensor.reduction"}
    /\ \E o \in Ops(ir) : Created(o) /\ o.kind = "ptensor.extract_rtensor"

\* the ops the rewrite of ir[i] put in its place, as positions of ir'
Emitted(i) == i..(i + Len(ir') - Len(ir))

\* the value ir[i] defined is gone, and what used it uses v instead
Replaces(i, v) ==
    /\ ir[i].id \notin OpIds(ir')
    /\ \A j \in DOMAIN ir : j > i =>
          LET u == ir[j]
              n == ir'[j + Len(ir') - Len(ir)]
          IN  /\ n.id = u.id
              /\ n.args = [k \in DOMAIN u.args |-> IF u.args[k] = ir[i].id THEN v ELSE u.args[k]]

\* C17: when the reduction rule fires on a reduction with opcode R over a distributed
\* operand, the ops it puts in place of the reduction are, in this order, the unwrap of
\* the operand to its local tensor, a local reduction with opcode R yielding a rank-0
\* tensor of the operand's element type, exactly one all-reduce, with opcode R, of that
\* partial result, and last the wrap of the all-reduce's result, which takes the
\* place of the reduction.
C17_ReductionSteps ==
    [][\A i \in DOMAIN ir :
          (DistReductionOpRWP(i) /\ res' = "success") =>
              LET op == ir[i]
                  new == Emitted(i)
                  last == i + Len(ir') - Len(ir)
                  tnsr(j) == OpOf(ir', ir'[j].args[1])
              IN  /\ Dist(ir, op.args[1])
                  /\ Cardinality({j \in new : ir'[j].kind = "dist.allreduce"}) = 1
                  /\ \E a, b, c \in new :
                        /\ a < b /\ b < c /\ c < last
                        /\ ir'[a].kind = "dist.get_ptensor"
                        /\ ir'[a].args = <<op.args[1]>>
                        /\ ir'[b].kind = "ptensor.reduction"
                        /\ ir'[b].attr = op.attr
                        /\ ~Dist(ir', ir'[b].args[1])
                        /\ tnsr(b).kind = "ptensor.init_ptensor"
                        /\ OpOf(ir', tnsr(b).args[1]).kind = "ptensor.extract_rtensor"
                        /\ OpOf(ir', tnsr(b).args[1]).args = <<ir'[a].id>>
                        /\ isPTensorType(ir'[b].ty)
                        /\ ir'[b].ty.rank = 0
                        /\ ir'[b].ty.elt = TypeOf(ir, op.args[1]).elt
                        /\ ir'[c].kind = "dist.allreduce"
                        /\ ir'[c].attr = op.attr
                        /\ tnsr(c).kind = "ptensor.extract_rtensor"
                        /\ tnsr(c).args = <<ir'[b].id>>
                        /\ ir'[last].kind = "dist.init_dist_tensor"
                        /\ isDistTensorType(ir'[last].ty)
                        /\ tnsr(last).kind = "ptensor.init_ptensor"
                        /\ tnsr(last).args[1] = ir'[c].id
                  /\ Replaces(i, ir'[last].id)]_vars

\* the rule has fired on a max-reduction of a distributed range whose result is used
C17_Witness ==
    /\ res = "success"
    /\ \E o \in Ops(input) :
          /\ o.kind = "ptensor.reduction" /\ o.attr = "max"
          /\ o.id \notin OpIds(ir)
          /\ \E u \in Ops(input) : o.id \in Range(u.args)
          /\ \E w \in CreatedBy(o.loc, "dist.init_dist_tensor") :
                \E u \in Ops(ir) : w.id \in Range(u.args)
          /\ \E c \in CreatedBy(o.loc, "dist.allreduce") : c.attr = "max"

\* the ops that talk to the team or read or build a DistInfo
Communication ==
    {"dist.allreduce", "dist.dist_info", "dist.extract_from_info", "dist.get_info"}

\* C18: the extract rule fires if and only if the operand of the extract op is a
\* distributed tensor; it then puts in place of the op the accessor of the plain
\* tensor (dist.get_ptensor) and the same extract op applied to it, and nothing else:
\* no all-reduce, no DistInfo and no local-shape, local-offset or team read.
C18_ExtractRule ==
    [][\A i \in DOMAIN ir :
          DistExtractRTensorOpRWP(i) =>
              LET op == ir[i]
              IN  /\ (res' = "success") <=> Dist(ir, op.args[1])
                  /\ res' # "success" => ir' = ir
                  /\ res' = "success" =>
                        /\ Emitted(i) = {i, i + 1}
                        /\ ir'[i].kind = "dist.get_ptensor"
                        /\ ir'[i].args = op.args
                        /\ isPTensorType(ir'[i].ty)
                        /\ ir'[i + 1].kind = op.kind
                        /\ ir'[i + 1].args = <<ir'[i].id>>
                        /\ ir'[i + 1].ty = op.ty
                        /\ \A j \in Emitted(i) : ir'[j].kind \notin Communication
                        /\ \A j \in 1..(i - 1) : ir'[j] = ir[j]
                        /\ Replaces(i, ir'[i + 1].id)]_vars

\* the rule has fired on the extract op that reads the result of a reduction, while
\* communication ops of earlier rewrites are in the function
C18_Witness ==
    /\ res = "success"
    /\ \E o \in Ops(input) :
          /\ o.kind = "ptensor.extract_rtensor"
          /\ o.id \notin OpIds(ir)
          /\ CreatedBy(o.loc, "dist.get_ptensor") # {}
          /\ CreatedBy(o.loc, "ptensor.extract_rtensor") # {}
    /\ \E o \in Ops(ir) : o.kind = "dist.allreduce"

\* the type assertions of the helper that created op g[j] hold:
\* createGetLocal (dtTyp, ptTyp), createTeamOf (ptTyp), createAllReduce (pTnsrTyp)
AssertionsHold(g, j) ==
    LET o == g[j]
    IN  /\ o.kind = "dist.get_ptensor" =>
              /\ isDistTensorType(TypeOf(g, o.args[1]))
              /\ isPTensorType(o.ty)
        /\ o.kind = "dist.get_info" => isDistTensorType(TypeOf(g, o.args[1]))
        /\ o.kind = "dist.allreduce" =>
              /\ OpOf(g, o.args[1]).kind = "ptensor.extract_rtensor"
              /\ isPTensorType(TypeOf(g, OpOf(g, o.args[1]).args[1]))

\* C19: whenever the ewbin or the reduction rule rewrites an op, the helpers it calls
\* get values of the types they assert: createGetLocal and createTeamOf a distributed
\* tensor, createGetLocal's accessor yields a plain ptensor, and createAllReduce gets a
\* plain ptensor.
C19_AssertionsHold ==
    [][\A i \in DOMAIN ir :
          ((DistEWBinOpRWP(i) \/ DistReductionOpRWP(i)) /\ res' = "success") =>
              /\ \E j \in Emitted(i) : ir'[j].kind = "dist.get_ptensor"
              /\ \E j \in Emitted(i) : ir'[j].kind = "dist.get_info"
              /\ \A j \in Emitted(i) : AssertionsHold(ir', j)]_vars

\* the reduction rule has just fired: createGetLocal, createAllReduce and createTeamOf
\* have been called, in that order
C19_Witness ==
    /\ res = "success"
    /\ \E o \in Ops(input) :
          /\ o.kind = "ptensor.reduction"
          /\ \E a \in CreatedBy(o.loc, "dist.get_ptensor") :
              \E b \in CreatedBy(o.loc, "dist.allreduce") :
              \E c \in CreatedBy(o.loc, "dist.get_info") : a.id < b.id /\ b.id < c.id

\* C20: once the driver has stopped, the function has no range with a team operand,
\* no ewbin over two distributed tensors, no reduction of a distributed tensor and no
\* extract op on a distributed tensor.
C20_NormalForm ==
    pc = "done" =>
        \A j \in DOMAIN ir :
            LET o == ir[j]
            IN  /\ o.kind = "ptensor.arange" => o.args[5] = NoVal
                /\ o.kind = "ptensor.ewbin" =>
                      ~(isDistTensorType(TypeOf(ir, o.args[1]))
                          /\ isDistTensorType(TypeOf(ir, o.args[2])))
                /\ o.kind = "ptensor.reduction" => ~isDistTensorType(TypeOf(ir, o.args[1]))
                /\ o.kind = "ptensor.extract_rtensor" =>
                      ~isDistTensorType(TypeOf(ir, o.args[1]))

\* the driver has stopped on a function that had a range over a team, a reduction and
\* an extract op; local ops of the three kinds are what is left of them
C20_Witness ==
    /\ pc = "done"
    /\ TeamBearing(input)
    /\ \A k \in {"ptensor.arange", "ptensor.reduction", "ptensor.extract_rtensor"} :
          /\ \E o \in Ops(input) : o.kind = k
          /\ \E o \in Ops(ir) : o.kind = k /\ Created(o)
    /\ \E o \in Ops(ir) : isDistTensorType(o.ty)

\* g with its values renumbered in program order: the op at position j defines
\* value FirstOpId + j - 1
Renumbered(g) ==
    LET pos(v) == CHOOSE j \in DOMAIN g : g[j].id = v
        ren(v) == IF v \in OpIds(g) THEN FirstOpId + pos(v) - 1 ELSE v
    IN  [j \in DOMAIN g |->
            [g[j] EXCEPT !.id = FirstOpId + j - 1,
                         !.args = [k \in DOMAIN g[j].args |-> ren(g[j].args[k])]]]

\* the fixed point the driver reaches when it always rewrites the first op, in
\* program order, that a pattern matches (n bounds the number of rewrites)
RECURSIVE LeftmostFirst(_, _, _)
LeftmostFirst(g, id, n) ==
    LET M == {i \in DOMAIN g : Matches(g, i)}
    IN  IF M = {} \/ n = 0 THEN g
        ELSE LET i == CHOOSE j \in M : \A k \in M : j <= k
                 r == applyPattern(g, i, id)
             IN  LeftmostFirst(r.ir, r.next, n - 1)

\* C21: whatever order the driver applied the matching patterns in, the function it
\* stops with is, up to the numbering of values, the one reached by rewriting the
\* first matching op first.
C21_Confluence ==
    pc = "done" =>
        Renumbered(ir) = Renumbered(LeftmostFirst(input, FirstOpId + Len(input), MaxIds))

\* the driver has stopped after rewriting the second of two independent ops (two
\* reductions of one range, or two ranges) before the first
C21_Witness ==
    /\ pc = "done"
    /\ rewrites >= 2
    /\ \E a, b \in Ops(ir) :
          /\ Created(a) /\ Created(b)
          /\ a.loc < b.loc
          /\ Orig(a).kind = Orig(b).kind
          /\ a.id > b.id
    /\ ir # LeftmostFirst(input, FirstOpId + Len(input), MaxIds)

\* the tail of the range rule (lines 205-232) on given local offsets and local shape:
\* the ops from the tensor.extract of the offset to the re-issued arange, fed with the
\* function's start and step
LocalARangeOps(offset, localCount) ==
    LET offsets == FirstOpId
        zero == FirstOpId + 1
        lSz == FirstOpId + 2
        off == FirstOpId + 3
    IN  << Op(0, offsets, "arith.constant", <<>>, "", [shape |-> <<1>>, data |-> <<offset>>],
              TyIdxTensor) >> \o
        createIndex(0, zero, 0) \o
        createInt(0, lSz, localCount, TyI64) \o
        localStartStop(0, off, offsets, zero, lSz, ArgStart, ArgStep) \o
        << Op(0, off + 5, "ptensor.arange", <<off + 2, off + 4, ArgStep, ArgDevice, dmy>>,
              "", 0, TyPT(<<-1>>)) >>

\* the tensor the re-issued arange yields for start and step of e
LocalARange(offset, localCount, e) ==
    Values(LocalARangeOps(offset, localCount), e)[FirstOpId + 8].at[1]

\* C22: the re-issued local range has exactly localCount elements: on every worker
\* its length is element 0 of the local shape of the DistInfo it is wrapped with, and
\* for the function's start and step (positive or negative) and every local offset and
\* local count in 0..MaxLocal, the range from start' = start + offset*step to
\* stop' = start' + localCount*step has localCount elements.
C22_LocalCount ==
    LocalRanges # {} =>
        LET V == Values(ir, env)
        IN  /\ \A o \in LocalRanges : \A r \in Workers :
                  \E w \in CreatedBy(o.loc, "dist.init_dist_tensor") :
                      LET info == V[w.args[2]].at[r + 1]
                          localCount == LocalShape(info, env, r)[1]
                      IN  /\ w.args[1] = o.id
                          /\ localCount >= 0
                          /\ Len(V[o.id].at[r + 1].data) = localCount
                          /\ V[o.id].at[r + 1].shape = <<localCount>>
                          /\ V[w.id].at[r + 1].local = V[o.id].at[r + 1]
            /\ \A offset, localCount \in 0..MaxLocal :
                  LET t == LocalARange(offset, localCount, env)
                  IN  /\ Len(t.data) = localCount
                      /\ t.shape = <<localCount>>
                      /\ localCount > 0 => t.data[1] = env.start + offset * env.step

====
